---------------------------- MODULE Spec2Model ----------------------------
(***************************************************************************)
(* A model of backport.py: the backport workflow (App._run), its two       *)
(* front ends (App.run_cli, App.run_bot), the command runner (git), the    *)
(* working-directory context managers (tempdir, git_work_dir) and the      *)
(* merge-message parser (App.parse_log_message).                           *)
(*                                                                         *)
(* Python strings are modelled as sequences of one-character strings, so   *)
(* that split, startswith, endswith, the regular expression and the        *)
(* number conversions are computed character by character.                 *)
(***************************************************************************)
EXTENDS Integers, Sequences, FiniteSets, TLC

(***************************************************************************)
(* Bounds of the model.                                                    *)
(***************************************************************************)
\* --pr takes the values 1..MaxPr
MaxPr == 2
\* messages of the parser's specification have 1..MaxLines lines
MaxLines == 4

(***************************************************************************)
(* String helpers (Python str operations).                                 *)
(***************************************************************************)
DigitChars == <<"0", "1", "2", "3", "4", "5", "6", "7", "8", "9">>

IsDigit(c) == \E i \in 1..10 : DigitChars[i] = c

DigitVal(c) == (CHOOSE i \in 1..10 : DigitChars[i] = c) - 1

\* s[from:] of Python (from is 0-based)
Drop(s, n) == IF n >= Len(s) THEN <<>> ELSE SubSeq(s, n + 1, Len(s))

\* s[:n] of Python
Take(s, n) == IF n >= Len(s) THEN s ELSE SubSeq(s, 1, n)

\* str.startswith
startswith(s, prefix) ==
    /\ Len(prefix) <= Len(s)
    /\ SubSeq(s, 1, Len(prefix)) = prefix

\* str.endswith
endswith(s, suffix) ==
    /\ Len(suffix) <= Len(s)
    /\ SubSeq(s, Len(s) - Len(suffix) + 1, Len(s)) = suffix

\* character classes: "digit" is [0-9], "owner" is [^ /], "branch" is [^ ],
\* "line" is [^\n]
InClass(c, cls) ==
    CASE cls = "digit" -> IsDigit(c)
      [] cls = "owner" -> c # " " /\ c # "/"
      [] cls = "branch" -> c # " "
      [] cls = "line" -> c # "\n"

\* the length of the longest run of characters of class cls that starts at
\* position i of s (1-based), plus i - 1
RECURSIVE SpanLen(_, _, _)
SpanLen(s, i, cls) ==
    IF i <= Len(s) /\ InClass(s[i], cls) THEN SpanLen(s, i + 1, cls) ELSE i - 1

\* int(digits) for a non-empty string of ASCII digits
RECURSIVE int(_)
int(d) ==
    IF Len(d) = 0 THEN 0
    ELSE 10 * int(SubSeq(d, 1, Len(d) - 1)) + DigitVal(d[Len(d)])

\* str(n) / '{}'.format(n) for an integer n >= 0: no leading zeros
RECURSIVE str(_)
str(n) ==
    IF n < 10 THEN <<DigitChars[n + 1]>>
    ELSE str(n \div 10) \o <<DigitChars[(n % 10) + 1]>>

\* msg.split('\n'): always at least one element
RECURSIVE split(_)
split(s) ==
    LET n == SpanLen(s, 1, "line")
    IN  IF n = Len(s) THEN <<s>>
        ELSE <<Take(s, n)>> \o split(Drop(s, n + 1))

\* '\n'.join(lines)
RECURSIVE join(_)
join(lines) ==
    IF Len(lines) = 0 THEN <<>>
    ELSE IF Len(lines) = 1 THEN lines[1]
    ELSE lines[1] \o <<"\n">> \o join(Tail(lines))

(***************************************************************************)
(* String literals of the program.                                         *)
(***************************************************************************)
\* 'Merge pull request #' (the literal head of the pattern)
MergeHead ==
    <<"M", "e", "r", "g", "e", " ", "p", "u", "l", "l", " ",
      "r", "e", "q", "u", "e", "s", "t", " ", "#">>

\* ' from '
FromSep == <<" ", "f", "r", "o", "m", " ">>

\* 'to-be-backported'
ToBeBackported ==
    <<"t", "o", "-", "b", "e", "-", "b", "a", "c", "k", "p", "o", "r", "t", "e", "d">>

\* 'reviewer-team'
ReviewerTeam ==
    <<"r", "e", "v", "i", "e", "w", "e", "r", "-", "t", "e", "a", "m">>

\* 'st:'
StPrefix == <<"s", "t", ":">>

\* 'backport'
Backport == <<"b", "a", "c", "k", "p", "o", "r", "t">>

\* '[bot]'
BotSuffix == <<"[", "b", "o", "t", "]">>

\* 'cupy/code-owners'
CodeOwners ==
    <<"c", "u", "p", "y", "/", "c", "o", "d", "e", "-", "o", "w", "n", "e", "r", "s">>

\* 'bp-'
BpPrefix == <<"b", "p", "-">>

(***************************************************************************)
(* App.parse_log_message.                                                  *)
(***************************************************************************)
\* re.match(r'^Merge pull request #(?P<pr_num>[0-9]+) from
\*            [^ /]+/(?P<branch_name>[^ ]+)$', head_msg)
\* The result is [matched, pr_num, branch_name] with the groups as strings.
\* Each group is followed by a character its class excludes, so the greedy
\* match is the only one: the digits run up to the first non-digit, the
\* owner up to the first '/', and the branch is the rest of the line.
\* head_msg has no newline (it is an element of msg.split('\n')), so '$'
\* matches only at its end.
MatchPattern(head_msg) ==
    LET afterHead == Drop(head_msg, Len(MergeHead))
        nDigits == SpanLen(afterHead, 1, "digit")
        afterDigits == Drop(afterHead, nDigits)
        afterFrom == Drop(afterDigits, Len(FromSep))
        nOwner == SpanLen(afterFrom, 1, "owner")
        afterOwner == Drop(afterFrom, nOwner)
        branch == Drop(afterOwner, 1)
        ok == /\ startswith(head_msg, MergeHead)
              /\ nDigits >= 1
              /\ startswith(afterDigits, FromSep)
              /\ nOwner >= 1
              /\ startswith(afterOwner, <<"/">>)
              /\ Len(branch) >= 1
              /\ SpanLen(branch, 1, "branch") = Len(branch)
    IN  IF ok
        THEN [matched |-> TRUE, pr_num |-> Take(afterHead, nDigits),
              branch_name |-> branch]
        ELSE [matched |-> FALSE, pr_num |-> <<>>, branch_name |-> <<>>]

\* head_msg, _, title = msg.split('\n')[:3]: unpacking fewer than three
\* elements raises ValueError
UnpackFails(msg) == Len(Take(split(msg), 3)) # 3

\* The outcome of parse_log_message on the message text msg.
parse_log_message(msg) ==
    LET lines == Take(split(msg), 3)
        m == MatchPattern(lines[1])
    IN  IF UnpackFails(msg)
        THEN [kind |-> "ValueError", pr_num |-> 0, branch_name |-> <<>>,
              title |-> <<>>, line |-> <<>>]
        ELSE IF ~m.matched
        THEN [kind |-> "GracefulError", pr_num |-> 0, branch_name |-> <<>>,
              title |-> <<>>, line |-> lines[1]]
        ELSE [kind |-> "ok", pr_num |-> int(m.pr_num),
              branch_name |-> m.branch_name, title |-> lines[3],
              line |-> lines[1]]

(***************************************************************************)
(* The values the workflow is run on: command-line arguments and the       *)
(* state of the hosting platform (the original pull request, commits).     *)
(***************************************************************************)
\* pr_num is None (argparse default of --pr)
NonePr == -1

\* sha is None (argparse default of --sha); no commit has the empty name
NoneSha == <<>>

\* the merge commit recorded on the original pull request
ShaM == <<"c", "0", "f", "e">>

\* another commit of the repository
ShaS == <<"b", "e", "e", "f">>

Shas == {ShaM, ShaS}

\* --branch (default 'v10')
V10 == <<"v", "1", "0">>

\* organ_name and repo_name of --repo cupy
OrganName == <<"c", "u", "p", "y">>

\* self.g.get_user().login
UserName == <<"b", "a", "c", "k", "p", "o", "r", "t", "-", "u", "s", "e", "r">>

\* pr.title and pr.user.login of the original pull request
PrTitle == <<"A", "d", "d", " ", "w", "i", "d", "g", "e", "t">>

PrAuthor == <<"a", "l", "i", "c", "e">>

\* label names found on pull requests
Feature == <<"f", "e", "a", "t", "u", "r", "e">>

StA == <<"s", "t", ":", "a">>

St == <<"s", "t">>

Labels == {ToBeBackported, ReviewerTeam, StA, St, Feature}

\* logins of the user who merged the pull request, and of its assignee
Carol == <<"c", "a", "r", "o", "l">>

Mergify == <<"m", "e", "r", "g", "i", "f", "y", "[", "b", "o", "t", "]">>

Dave == <<"d", "a", "v", "e">>

Mergers == {Carol, Mergify}

\* pr.assignee: <<>> stands for None
NoAssignee == <<>>

Assignees == {NoAssignee, Dave}

\* commit messages found in the repository
HeadAliceFix ==
    MergeHead \o <<"1">> \o FromSep \o <<"a", "l", "i", "c", "e", "/", "f", "i", "x">>

HeadBobAB ==
    MergeHead \o <<"0", "1", "2">> \o FromSep \o <<"b", "o", "b", "/", "a", "/", "b">>

WfMessages ==
    << join(<<HeadAliceFix, <<>>, PrTitle>>),
       join(<<HeadBobAB, <<>>, <<"T">>, <<"x">>>>),
       join(<<<<"F", "i", "x", " ", "t", "y", "p", "o">>, <<>>, <<"b", "o", "d", "y">>>>),
       HeadAliceFix >>

(***************************************************************************)
(* Pure parts of App._run, tempdir, run_cli, run_bot and main.             *)
(***************************************************************************)
\* labels.remove('to-be-backported'); labels.discard('reviewer-team');
\* labels = set(_ for _ in labels if not _.startswith('st:'))
DeriveLabelsKeepsReserved(labels) ==
    (labels \ {ToBeBackported}) \ {ReviewerTeam}

DeriveLabels(labels) ==
    {l \in (labels \ {ToBeBackported}) \ {ReviewerTeam} : ~startswith(l, StPrefix)}

\* the arguments of bp_pr_issue.set_labels('backport', *list(labels))
SetLabelsArgs(labels) == {Backport} \cup labels

\* uri_template.format(organ_name, repo_name): the remote is kept as its
\* template and its owner, the repository name being the same in both
Remote(https, owner) == [https |-> https, owner |-> owner]

\* 'bp-{}-{}-{}'.format(pr_num, target_branch, branch_name)
BpBranchMissingPr(pr_num, target_branch, branch_name) ==
    BpPrefix \o target_branch \o <<"-">> \o branch_name

BpBranchName(pr_num, target_branch, branch_name) ==
    BpPrefix \o str(pr_num) \o <<"-">> \o target_branch \o <<"-">> \o branch_name

\* delete = False if self.debug or abort_before_push else 'on-success'
DeleteOptionIgnoresDebug(dbg, abort) == IF abort THEN "False" ELSE "on-success"

DeleteOption(dbg, abort) == IF dbg \/ abort THEN "False" ELSE "on-success"

\* tempdir's finally clause: whether shutil.rmtree runs
TempdirDeletesOnFailure(delete, succeeded) ==
    delete = "True" \/ delete = "on-success"

TempdirDeletes(delete, succeeded) ==
    delete = "True" \/ (delete = "on-success" /\ succeeded)

\* git_work_dir: the directory put under tempdir's care: none when use_cwd
\* (`yield os.getcwd()` stands outside `with tempdir(...)`)
ManagedDirCwd(use_cwd) == IF use_cwd THEN "cwd" ELSE "temp_dir"

ManagedDir(use_cwd) == IF use_cwd THEN "none" ELSE "temp_dir"

\* git_work_dir: os.getcwd() when use_cwd, else os.path.join(tempd, 'work')
WorkDir(use_cwd) == IF use_cwd THEN "cwd" ELSE "tmp/work"

\* the mention of run_bot's comment
Mention(is_merged, merged_by, assignee) ==
    IF is_merged
    THEN IF ~endswith(merged_by, BotSuffix) THEN merged_by
         ELSE IF assignee # NoAssignee THEN assignee
         ELSE CodeOwners
    ELSE CodeOwners

\* exceptions: [type, what, cmd]; cmd holds the failed git command, if any
NoExc == [type |-> "none", what |-> "", cmd |-> <<>>]

Exc(type, what) == [type |-> type, what |-> what, cmd |-> <<>>]

\* class NoActionRequiredError(GracefulError)
IsGraceful(e) == e.type \in {"GracefulError", "NoActionRequiredError"}

\* run_cli's try/except: the value returned (NoReturn when the exception
\* is not caught and escapes)
NoReturn == -1

\* with `except GracefulError` tried first, NoActionRequiredError returns 1
RunCliReturnGracefulFirst(e) ==
    IF e.type = "none" THEN 0
    ELSE IF IsGraceful(e) THEN 1
    ELSE NoReturn

\* without `return 1` every caught exception returns 0
RunCliReturnAlwaysZero(e) ==
    IF e.type = "none" \/ IsGraceful(e) THEN 0 ELSE NoReturn

RunCliReturn(e) ==
    IF e.type = "none" \/ e.type = "NoActionRequiredError" THEN 0
    ELSE IF IsGraceful(e) THEN 1
    ELSE NoReturn

\* sys.exit(main(sys.argv[1:])): the interpreter ends with status 1 when an
\* exception escapes main
NoExit == -1

ProcessExit(ret, escaped) == IF escaped.type # "none" THEN 1 ELSE ret

\* parser.error() ends the process with status 2
UsageExit == 2

(***************************************************************************)
(* State.                                                                  *)
(***************************************************************************)
VARIABLES
    \* how the program is entered and with which arguments
    caller,             \* "main": main(args); "script": App(...) built by a caller
    bot,                \* --bot: run_bot is used instead of run_cli
    arg_pr,             \* --pr (NonePr when absent)
    arg_sha,            \* --sha (NoneSha when absent)
    target_branch,      \* --branch
    is_continue,        \* --continue
    abort_before_push,  \* --abort-before-push
    https,              \* --https
    debug_in,           \* --debug for main; the constructor's debug otherwise
    \* the hosting platform
    pr_merged,          \* pr.merged / pr.is_merged() of the original PR
    pr_labels,          \* the label names of the original PR
    commit_msg,         \* commit -> index in WfMessages (0: not read yet)
    pr_people,          \* [read, merged_by, assignee] of the original PR
    \* the program
    pc,                 \* position in main / run_cli / run_bot / _run
    debug,              \* self.debug
    pr_num,             \* _run's pr_num
    branch_name,        \* _run's branch_name
    merge_commit_sha,   \* _run's merge_commit_sha
    labels,             \* _run's labels
    workd,              \* the working tree ("none" before git_work_dir)
    temp_dir,           \* the directory of tempdir: "absent", "exists", "deleted"
    cwd_dir,            \* the caller's current directory: "exists", "deleted"
    exc,                \* the exception _run raised (NoExc: none)
    escaped,            \* the exception that escaped run_cli / run_bot / main
    ret,                \* the value run_cli / run_bot returned
    exit_code,          \* the status of the process
    gitLog,             \* the git commands run, in order
    apiLog,             \* the mutating API calls made, in order
    \* a function of the program called on its own
    input,              \* the arguments of the call
    output              \* what the call returned or raised

args == <<caller, bot, arg_pr, arg_sha, target_branch, is_continue,
          abort_before_push, https, debug_in>>

platform == <<pr_merged, pr_labels, commit_msg, pr_people>>

locals == <<pr_num, branch_name, merge_commit_sha, labels>>

dirs == <<workd, temp_dir, cwd_dir>>

results == <<exc, escaped, ret, exit_code>>

logs == <<gitLog, apiLog>>

harness == <<input, output>>

vars == <<args, platform, pc, debug, locals, dirs, results, logs, harness>>

PrArgs == 1..MaxPr

NoPeople == [read |-> FALSE, merged_by |-> <<>>, assignee |-> NoAssignee]

\* main receives any combination of --pr and --sha; a caller of App gives
\* run_cli / run_bot exactly one of them
Init ==
    /\ caller \in {"main", "script"}
    /\ bot \in BOOLEAN
    /\ arg_pr \in PrArgs \cup {NonePr}
    /\ arg_sha \in Shas \cup {NoneSha}
    /\ caller = "script" => (arg_pr = NonePr) # (arg_sha = NoneSha)
    /\ target_branch = V10
    /\ is_continue \in BOOLEAN
    /\ abort_before_push \in BOOLEAN
    /\ https \in BOOLEAN
    /\ debug_in \in BOOLEAN
    /\ pr_merged \in BOOLEAN
    /\ pr_labels \in SUBSET Labels
    /\ commit_msg = [c \in Shas |-> 0]
    /\ pr_people = NoPeople
    /\ pc = IF caller = "main" THEN "main" ELSE "App"
    /\ debug = FALSE
    /\ pr_num = NonePr
    /\ branch_name = <<>>
    /\ merge_commit_sha = NoneSha
    /\ labels = {}
    /\ workd = "none"
    /\ temp_dir = "absent"
    /\ cwd_dir = "exists"
    /\ exc = NoExc
    /\ escaped = NoExc
    /\ ret = NoReturn
    /\ exit_code = NoExit
    /\ gitLog = <<>>
    /\ apiLog = <<>>
    /\ input = <<>>
    /\ output = <<>>

(***************************************************************************)
(* main and App.__init__.                                                  *)
(***************************************************************************)
\* the process ends: an exception e escapes, or main returns r
Exits(r, e) ==
    /\ pc' = "done"
    /\ ret' = r
    /\ escaped' = e
    /\ exit_code' = IF caller = "main" THEN ProcessExit(r, e) ELSE NoExit
    /\ exc' = exc

\* main up to App(...): exactly one of --pr and --sha, else parser.error
ArgsValidAllowsBoth == arg_pr # NonePr \/ arg_sha # NoneSha

ArgsValid == (arg_pr = NonePr) # (arg_sha = NoneSha)

Main ==
    /\ pc = "main"
    /\ \/ /\ ~ArgsValid
          /\ pc' = "done"
          /\ exit_code' = UsageExit
          /\ UNCHANGED <<exc, escaped, ret>>
       \/ /\ ArgsValid
          /\ pc' = "App"
          /\ UNCHANGED results
    /\ UNCHANGED <<harness, args, platform, debug, locals, dirs, logs>>

\* main builds App(github_token, organ_name=..., repo_name=...): debug is
\* not passed and keeps its default; another caller passes debug_in
AppDebug == IF caller = "main" THEN FALSE ELSE debug_in

\* App.__init__: get_repo and get_user are API calls
AppInit ==
    /\ pc = "App"
    /\ \/ /\ debug' = AppDebug
          /\ pc' = "_run"
          /\ UNCHANGED results
       \/ /\ Exits(NoReturn, Exc("ApiError", "App.__init__"))
          /\ UNCHANGED debug
    /\ UNCHANGED <<harness, args, platform, locals, dirs, logs>>

(***************************************************************************)
(* App._run, before the working tree.                                      *)
(***************************************************************************)
\* _run raises e before the with statement
Raises(e) ==
    /\ exc' = e
    /\ pc' = "raised"
    /\ UNCHANGED <<escaped, ret, exit_code>>

\* self.repo.get_commit(commit).commit.message: the message of a commit is
\* fixed the first time it is read
ReadsCommit(commit, i) ==
    /\ i \in 1..Len(WfMessages)
    /\ commit_msg[commit] \in {0, i}
    /\ commit_msg' = [commit_msg EXCEPT ![commit] = i]

\* the exception parse_log_message raises for outcome r
ParseError(r) ==
    IF r.kind = "ValueError" THEN Exc("ValueError", "unpack")
    ELSE Exc("GracefulError", "Invalid log message")

\* assert (pr_num is None and sha is not None) or (pr_num is not None and
\* sha is None)
RunAssert ==
    \/ arg_pr = NonePr /\ arg_sha # NoneSha
    \/ arg_pr # NonePr /\ arg_sha = NoneSha

\* the asserts, then: if sha is not None: pr_num, branch_name, _ =
\* self.parse_log_message(sha)
RunStart ==
    /\ pc = "_run"
    /\ \/ /\ ~RunAssert
          /\ Raises(Exc("AssertionError", "pr_num, sha"))
          /\ UNCHANGED <<pr_num, branch_name, commit_msg>>
       \/ /\ RunAssert
          /\ arg_sha = NoneSha
          /\ pr_num' = arg_pr
          /\ pc' = "get_pull"
          /\ UNCHANGED <<branch_name, commit_msg, results>>
       \/ /\ RunAssert
          /\ arg_sha # NoneSha
          /\ \E i \in 1..Len(WfMessages) :
                LET r == parse_log_message(WfMessages[i])
                IN  /\ ReadsCommit(arg_sha, i)
                    /\ \/ /\ r.kind = "ok"
                          /\ pr_num' = r.pr_num
                          /\ branch_name' = r.branch_name
                          /\ pc' = "get_pull"
                          /\ UNCHANGED results
                       \/ /\ r.kind # "ok"
                          /\ Raises(ParseError(r))
                          /\ UNCHANGED <<pr_num, branch_name>>
       \/ /\ RunAssert
          /\ arg_sha # NoneSha
          /\ Raises(Exc("ApiError", "get_commit"))
          /\ UNCHANGED <<pr_num, branch_name, commit_msg>>
    /\ UNCHANGED <<harness, args, pr_merged, pr_labels, pr_people, debug,
                   merge_commit_sha, labels, dirs, logs>>

\* pr.merged, as `if not pr.merged:` reads it
IsMergedUnchecked == TRUE

IsMerged == pr_merged

\* pr = self.repo.get_pull(pr_num); if not pr.merged: raise GracefulError
GetPull ==
    /\ pc = "get_pull"
    /\ \/ /\ IsMerged
          /\ merge_commit_sha' = ShaM
          /\ pc' = "parse_merge"
          /\ UNCHANGED results
       \/ /\ ~IsMerged
          /\ Raises(Exc("GracefulError", "not merged"))
          /\ UNCHANGED merge_commit_sha
       \/ /\ Raises(Exc("ApiError", "get_pull"))
          /\ UNCHANGED merge_commit_sha
    /\ UNCHANGED <<harness, args, platform, debug, pr_num, branch_name, labels,
                   dirs, logs>>

\* _, branch_name, _ = self.parse_log_message(merge_commit_sha)
ParseMerge ==
    /\ pc = "parse_merge"
    /\ \/ \E i \in 1..Len(WfMessages) :
             LET r == parse_log_message(WfMessages[i])
             IN  /\ ReadsCommit(merge_commit_sha, i)
                 /\ \/ /\ r.kind = "ok"
                       /\ branch_name' = r.branch_name
                       /\ pc' = "get_issue"
                       /\ UNCHANGED results
                    \/ /\ r.kind # "ok"
                       /\ Raises(ParseError(r))
                       /\ UNCHANGED branch_name
       \/ /\ Raises(Exc("ApiError", "get_commit"))
          /\ UNCHANGED <<branch_name, commit_msg>>
    /\ UNCHANGED <<harness, args, pr_merged, pr_labels, pr_people, debug, pr_num,
                   merge_commit_sha, labels, dirs, logs>>

\* pr_issue = self.repo.get_issue(pr_num); the label check; the derived
\* labels
GetIssue ==
    /\ pc = "get_issue"
    /\ \/ /\ ToBeBackported \in pr_labels
          /\ labels' = DeriveLabels(pr_labels)
          /\ pc' = "git_work_dir"
          /\ UNCHANGED results
       \/ /\ ToBeBackported \notin pr_labels
          /\ Raises(Exc("NoActionRequiredError", "no to-be-backported label"))
          /\ UNCHANGED labels
       \/ /\ Raises(Exc("ApiError", "get_issue"))
          /\ UNCHANGED labels
    /\ UNCHANGED <<harness, args, platform, debug, pr_num, branch_name,
                   merge_commit_sha, dirs, logs>>

(***************************************************************************)
(* App._run inside `with git_work_dir(...) as workd`.                      *)
(***************************************************************************)
origin_remote == Remote(https, OrganName)

user_remote == Remote(https, UserName)

NoRemote == [https |-> FALSE, owner |-> <<>>]

bp_branch_name == BpBranchName(pr_num, target_branch, branch_name)

delete == DeleteOption(debug, abort_before_push)

\* the exit statuses a git command ends with
ReturnCodes == {0, 1, 128}

\* one run of git(): cd is "none", "cwd" or "tmp/work"; rc is
\* proc.returncode
GitCmd(verb, branch, remote, commit, cd, rc) ==
    [verb |-> verb, branch |-> branch, remote |-> remote, commit |-> commit,
     cd |-> cd, rc |-> rc]

\* raise GitCommandError("Git command failed with code {}", cmd)
GitCommandErrorNoCmd(cmd) ==
    [type |-> "GitCommandError", what |-> "Git command failed", cmd |-> <<>>]

GitCommandError(cmd) ==
    [type |-> "GitCommandError", what |-> "Git command failed", cmd |-> <<cmd>>]

\* an exception raised inside the with statement: tempdir's finally clause
\* runs next
RaisesInWith(e) ==
    /\ exc' = e
    /\ pc' = "exit_with"
    /\ UNCHANGED <<escaped, ret, exit_code>>

\* git(): subprocess.run(cmd), and GitCommandError when returncode != 0
GitRetriesOnce(cmd, next) ==
    /\ gitLog' = Append(gitLog, cmd)
    /\ IF cmd.rc = 0
       THEN pc' = next /\ UNCHANGED results
       ELSE IF \A i \in DOMAIN gitLog : gitLog[i].rc = 0
       THEN pc' = pc /\ UNCHANGED results
       ELSE RaisesInWith(GitCommandError(cmd))

GitIgnoresFailure(cmd, next) ==
    /\ gitLog' = Append(gitLog, cmd)
    /\ pc' = next
    /\ UNCHANGED results

Git(cmd, next) ==
    /\ gitLog' = Append(gitLog, cmd)
    /\ IF cmd.rc = 0
       THEN pc' = next /\ UNCHANGED results
       ELSE RaisesInWith(GitCommandError(cmd))

\* git_work_dir(use_cwd=is_continue, prefix='bp-', delete=delete):
\* tempfile.mkdtemp unless use_cwd; then `if not is_continue`
UseCwdNever == FALSE

UseCwd == is_continue

GitWorkDir ==
    /\ pc = "git_work_dir"
    /\ workd' = WorkDir(UseCwd)
    /\ temp_dir' = IF ManagedDir(UseCwd) = "temp_dir" THEN "exists" ELSE temp_dir
    /\ pc' = IF is_continue THEN "abort_check" ELSE "clone"
    /\ UNCHANGED <<harness, args, platform, debug, locals, cwd_dir, results, logs>>

\* git(['clone', '--branch', target_branch, origin_remote, workd])
Clone ==
    /\ pc = "clone"
    /\ \E rc \in ReturnCodes :
          Git(GitCmd("clone", target_branch, origin_remote, NoneSha, "none", rc),
              "checkout")
    /\ UNCHANGED <<harness, args, platform, debug, locals, dirs, apiLog>>

\* git_(['checkout', '-b', bp_branch_name])
Checkout ==
    /\ pc = "checkout"
    /\ \E rc \in ReturnCodes :
          Git(GitCmd("checkout -b", bp_branch_name, NoRemote, NoneSha, workd, rc),
              "fetch")
    /\ UNCHANGED <<harness, args, platform, debug, locals, dirs, apiLog>>

\* git_(['fetch', 'origin', merge_commit_sha])
Fetch ==
    /\ pc = "fetch"
    /\ \E rc \in ReturnCodes :
          Git(GitCmd("fetch", <<>>, origin_remote, merge_commit_sha, workd, rc),
              "cherry-pick")
    /\ UNCHANGED <<harness, args, platform, debug, locals, dirs, apiLog>>

\* try: git_(['cherry-pick', '-m1', merge_commit_sha])
\* except GitCommandError: raise GracefulError('Not cleanly cherry-picked')
CherryPick ==
    /\ pc = "cherry-pick"
    /\ \E rc \in ReturnCodes :
          LET cmd == GitCmd("cherry-pick", <<>>, NoRemote, merge_commit_sha, workd, rc)
          IN  /\ gitLog' = Append(gitLog, cmd)
              /\ IF rc = 0
                 THEN pc' = "abort_check" /\ UNCHANGED results
                 ELSE RaisesInWith(Exc("GracefulError", "Not cleanly cherry-picked"))
    /\ UNCHANGED <<harness, args, platform, debug, locals, dirs, apiLog>>

\* `if abort_before_push:` stands after the `if not is_continue:` block, so
\* it is reached by fresh and by continued runs
AbortsOnlyFreshRuns == abort_before_push /\ ~is_continue

AbortsBeforePush == abort_before_push

\* if abort_before_push: raise GracefulError('Aborted')
AbortCheck ==
    /\ pc = "abort_check"
    /\ IF AbortsBeforePush
       THEN RaisesInWith(Exc("GracefulError", "Aborted"))
       ELSE pc' = "push" /\ UNCHANGED results
    /\ UNCHANGED <<harness, args, platform, debug, locals, dirs, logs>>

\* git_(['push', user_remote, 'HEAD'])
Push ==
    /\ pc = "push"
    /\ \E rc \in ReturnCodes :
          Git(GitCmd("push", <<>>, user_remote, NoneSha, workd, rc), "create_pull")
    /\ UNCHANGED <<harness, args, platform, debug, locals, dirs, apiLog>>

\* a mutating API call, as logged
ApiCall(call) ==
    [call |-> call, title |-> <<>>, head |-> <<>>, base |-> <<>>, body |-> <<>>,
     labels |-> {}, mention |-> <<>>, error |-> NoExc]

\* '[backport] '
TitlePrefix == <<"[", "b", "a", "c", "k", "p", "o", "r", "t", "]", " ">>

\* the arguments of self.repo.create_pull(title=..., head=..., base=..., body=...)
CreatePullBareHead ==
    [ApiCall("create_pull") EXCEPT
        !.title = TitlePrefix \o PrTitle,
        !.head = bp_branch_name,
        !.base = target_branch,
        !.body = <<"B", "a", "c", "k", "p", "o", "r", "t", " ", "o", "f", " ", "#">>
                 \o str(pr_num) \o <<" ", "b", "y", " ", "@">> \o PrAuthor]

CreatePullCall ==
    [ApiCall("create_pull") EXCEPT
        !.title = TitlePrefix \o PrTitle,
        !.head = UserName \o <<":">> \o bp_branch_name,
        !.base = target_branch,
        !.body = <<"B", "a", "c", "k", "p", "o", "r", "t", " ", "o", "f", " ", "#">>
                 \o str(pr_num) \o <<" ", "b", "y", " ", "@">> \o PrAuthor]

CreatePull ==
    /\ pc = "create_pull"
    /\ \/ /\ apiLog' = Append(apiLog, CreatePullCall)
          /\ pc' = "set_labels"
          /\ UNCHANGED results
       \/ /\ RaisesInWith(Exc("ApiError", "create_pull"))
          /\ UNCHANGED apiLog
    /\ UNCHANGED <<harness, args, platform, debug, locals, dirs, gitLog>>

\* bp_pr_issue = self.repo.get_issue(bp_pr.number)
\* bp_pr_issue.set_labels('backport', *list(labels))
SetLabels ==
    /\ pc = "set_labels"
    /\ \/ /\ apiLog' = Append(apiLog,
                [ApiCall("set_labels") EXCEPT !.labels = SetLabelsArgs(labels)])
          /\ pc' = "exit_with"
          /\ UNCHANGED results
       \/ /\ RaisesInWith(Exc("ApiError", "get_issue(bp_pr)"))
          /\ UNCHANGED apiLog
       \/ /\ RaisesInWith(Exc("ApiError", "set_labels"))
          /\ UNCHANGED apiLog
    /\ UNCHANGED <<harness, args, platform, debug, locals, dirs, gitLog>>

\* leaving the with statement: tempdir's finally clause removes the
\* directory under its care (none for the current directory), then
\* print("Done.") or the exception goes on
ExitWith ==
    /\ pc = "exit_with"
    /\ LET removes == TempdirDeletes(delete, exc = NoExc)
       IN  /\ temp_dir' = IF ManagedDir(UseCwd) = "temp_dir" /\ removes
                          THEN "deleted" ELSE temp_dir
           /\ cwd_dir' = IF ManagedDir(UseCwd) = "cwd" /\ removes
                         THEN "deleted" ELSE cwd_dir
    /\ pc' = IF exc = NoExc THEN "returned" ELSE "raised"
    /\ UNCHANGED <<harness, args, platform, debug, locals, workd, results, logs>>

(***************************************************************************)
(* App.run_cli and App.run_bot.                                            *)
(***************************************************************************)
RunCli ==
    /\ pc \in {"returned", "raised"}
    /\ ~bot
    /\ IF RunCliReturn(exc) = NoReturn
       THEN Exits(NoReturn, exc)
       ELSE Exits(RunCliReturn(exc), NoExc)
    /\ UNCHANGED <<harness, args, platform, debug, locals, dirs, logs>>

\* run_bot's try/except: except NoActionRequiredError, then except Exception
RunBotCatches(e) == e.type \notin {"none", "NoActionRequiredError"}

RunBot ==
    /\ pc \in {"returned", "raised"}
    /\ bot
    /\ IF RunBotCatches(exc)
       THEN pc' = "bot_get_pull" /\ UNCHANGED results
       ELSE Exits(0, NoExc)
    /\ UNCHANGED <<harness, args, platform, debug, locals, dirs, logs>>

\* in the handler: pr = self.repo.get_pull(pr_num) with run_bot's own
\* pr_num argument (args.pr, None under --sha), then pr.is_merged(),
\* pr.merged_by.login and pr.assignee
BotGetPull ==
    /\ pc = "bot_get_pull"
    /\ \/ /\ arg_pr = NonePr
          /\ Exits(NoReturn, Exc("AssertionError", "get_pull(None)"))
          /\ UNCHANGED pr_people
       \/ /\ arg_pr # NonePr
          /\ Exits(NoReturn, Exc("ApiError", "get_pull"))
          /\ UNCHANGED pr_people
       \/ /\ arg_pr # NonePr
          /\ Exits(NoReturn, Exc("ApiError", "is_merged"))
          /\ UNCHANGED pr_people
       \/ /\ arg_pr # NonePr
          /\ \E m \in Mergers, a \in Assignees :
                pr_people' = [read |-> TRUE,
                              merged_by |-> IF pr_merged THEN m ELSE <<>>,
                              assignee |-> a]
          /\ pc' = "bot_comment"
          /\ UNCHANGED results
    /\ UNCHANGED <<harness, args, pr_merged, pr_labels, commit_msg, debug, locals,
                   dirs, logs>>

\* pr.create_issue_comment('@{mention} Failed to backport automatically...
\* {e}'), then return 0
BotComment ==
    /\ pc = "bot_comment"
    /\ \/ /\ apiLog' = Append(apiLog,
                [ApiCall("create_issue_comment") EXCEPT
                    !.mention = Mention(pr_merged, pr_people.merged_by,
                                        pr_people.assignee),
                    !.error = exc])
          /\ Exits(0, NoExc)
       \/ /\ Exits(NoReturn, Exc("ApiError", "create_issue_comment"))
          /\ UNCHANGED apiLog
    /\ UNCHANGED <<harness, args, platform, debug, locals, dirs, gitLog>>

(***************************************************************************)
(* The program.                                                            *)
(***************************************************************************)
Next ==
    \/ Main
    \/ AppInit
    \/ RunStart
    \/ GetPull
    \/ ParseMerge
    \/ GetIssue
    \/ GitWorkDir
    \/ Clone
    \/ Checkout
    \/ Fetch
    \/ CherryPick
    \/ AbortCheck
    \/ Push
    \/ CreatePull
    \/ SetLabels
    \/ ExitWith
    \/ RunCli
    \/ RunBot
    \/ BotGetPull
    \/ BotComment

Spec == Init /\ [][Next]_vars

(***************************************************************************)
(* parse_log_message called on its own, on commit messages of 1..MaxLines  *)
(* lines whose first line is put together from the parts of a merge        *)
(* message, well-formed or not.                                            *)
(***************************************************************************)
\* the workflow is not running
Idle ==
    /\ caller = "script"
    /\ bot = FALSE
    /\ arg_pr = NonePr
    /\ arg_sha = NoneSha
    /\ target_branch = V10
    /\ is_continue = FALSE
    /\ abort_before_push = FALSE
    /\ https = FALSE
    /\ debug_in = FALSE
    /\ pr_merged = FALSE
    /\ pr_labels = {}
    /\ commit_msg = [c \in Shas |-> 0]
    /\ pr_people = NoPeople
    /\ debug = FALSE
    /\ pr_num = NonePr
    /\ branch_name = <<>>
    /\ merge_commit_sha = NoneSha
    /\ labels = {}
    /\ workd = "none"
    /\ temp_dir = "absent"
    /\ cwd_dir = "exists"
    /\ exc = NoExc
    /\ escaped = NoExc
    /\ ret = NoReturn
    /\ exit_code = NoExit
    /\ gitLog = <<>>
    /\ apiLog = <<>>

workflow == <<args, platform, debug, locals, dirs, results, logs>>

HeadStarts ==
    { MergeHead,
      <<"M", "e", "r", "g", "e", " ", "p", "u", "l", "l", " ",
        "r", "e", "q", "u", "e", "s", "t", " ">>,
      <<>> }

HeadDigits == { <<>>, <<"7">>, <<"1", "2">>, <<"0", "0", "7">> }

HeadSeps == { FromSep, <<" ", "f", "r", "o", "m">> }

HeadOwners == { <<"a", "l", "i", "c", "e">>, <<>>, <<"a", " ", "b">> }

HeadSlashes == { <<"/">>, <<>> }

HeadBranches ==
    { <<"f", "i", "x">>, <<"a", "/", "b">>, <<>>,
      <<"m", "y", " ", "f", "i", "x">>, <<"f", "i", "x", " ">> }

\* the lines after the first: empty, or a title
OtherLines == { <<>>, <<"T">> }

RECURSIVE SeqsUpTo(_, _)
SeqsUpTo(S, n) ==
    IF n = 0 THEN { <<>> }
    ELSE LET shorter == SeqsUpTo(S, n - 1)
         IN  shorter \cup { Append(q, x) : q \in shorter, x \in S }

\* a first line is canonical when its parts are those of
\* 'Merge pull request #<N> from <owner>/<branch>'
Canonical(start, digits, sep, owner, slash, branch) ==
    /\ start = MergeHead
    /\ digits # <<>>
    /\ sep = FromSep
    /\ owner = <<"a", "l", "i", "c", "e">>
    /\ slash = <<"/">>
    /\ branch \in { <<"f", "i", "x">>, <<"a", "/", "b">> }

ParseInit ==
    /\ Idle
    /\ pc = "parse_log_message"
    /\ output = <<>>
    /\ \E start \in HeadStarts, digits \in HeadDigits, sep \in HeadSeps,
          owner \in HeadOwners, slash \in HeadSlashes, branch \in HeadBranches,
          rest \in SeqsUpTo(OtherLines, MaxLines - 1) :
          LET lines == <<start \o digits \o sep \o owner \o slash \o branch>> \o rest
          IN  input = [msg |-> join(lines),
                       lines |-> lines,
                       canonical |-> Canonical(start, digits, sep, owner, slash, branch),
                       digits |-> digits,
                       branch |-> branch]

ParseCall ==
    /\ pc = "parse_log_message"
    /\ output' = parse_log_message(input.msg)
    /\ pc' = "parsed"
    /\ UNCHANGED <<workflow, input>>

ParseNext == ParseCall

SpecParse == ParseInit /\ [][ParseNext]_vars

(***************************************************************************)
(* The derived branch name computed on its own for two pull requests and   *)
(* one target branch.                                                      *)
(***************************************************************************)
\* pull request numbers are 0..MaxPrNum
MaxPrNum == 12

TargetBranches ==
    { V10, <<"1">>, <<"v", "-", "1">>, <<"2", "-", "v", "1", "0">> }

SourceBranches ==
    { <<"f", "i", "x">>, <<"2">>, <<"a", "-", "b">>,
      <<"v", "1", "0", "-", "f", "i", "x">>,
      <<"1", "-", "v", "1", "0", "-", "f", "i", "x">> }

BranchInit ==
    /\ Idle
    /\ pc = "bp_branch_name"
    /\ output = <<>>
    /\ \E n1 \in 0..MaxPrNum, n2 \in 0..MaxPrNum, t \in TargetBranches,
          b1 \in SourceBranches, b2 \in SourceBranches :
          input = [pr_num |-> <<n1, n2>>, target_branch |-> t,
                   branch_name |-> <<b1, b2>>]

BranchCall ==
    /\ pc = "bp_branch_name"
    /\ output' = [i \in 1..2 |->
                    BpBranchName(input.pr_num[i], input.target_branch,
                                 input.branch_name[i])]
    /\ pc' = "named"
    /\ UNCHANGED <<workflow, input>>

BranchNext == BranchCall

SpecBranch == BranchInit /\ [][BranchNext]_vars

(***************************************************************************)
(* Two runs through main on the same platform with the same flags: the     *)
(* first with --pr, the second, started when the first has ended, with     *)
(* --sha.  What the first run did is kept in input.                        *)
(***************************************************************************)
PairLabels == {Labels, Labels \ {ToBeBackported}}

PairInit ==
    /\ caller = "main"
    /\ bot \in BOOLEAN
    /\ arg_pr \in PrArgs
    /\ arg_sha = NoneSha
    /\ target_branch = V10
    /\ is_continue \in BOOLEAN
    /\ abort_before_push \in BOOLEAN
    /\ https \in BOOLEAN
    /\ debug_in \in BOOLEAN
    /\ pr_merged \in BOOLEAN
    /\ pr_labels \in PairLabels
    /\ commit_msg = [c \in Shas |-> 0]
    /\ pr_people = NoPeople
    /\ pc = "main"
    /\ debug = FALSE
    /\ pr_num = NonePr
    /\ branch_name = <<>>
    /\ merge_commit_sha = NoneSha
    /\ labels = {}
    /\ workd = "none"
    /\ temp_dir = "absent"
    /\ cwd_dir = "exists"
    /\ exc = NoExc
    /\ escaped = NoExc
    /\ ret = NoReturn
    /\ exit_code = NoExit
    /\ gitLog = <<>>
    /\ apiLog = <<>>
    /\ input = <<>>
    /\ output = <<>>

\* the process is started again, with --sha in the place of --pr
Rerun ==
    /\ pc = "done"
    /\ input = <<>>
    /\ input' = [pr |-> arg_pr, exc |-> exc, escaped |-> escaped,
                 gitLog |-> gitLog, apiLog |-> apiLog]
    /\ arg_pr' = NonePr
    /\ arg_sha' \in Shas
    /\ pc' = "main"
    /\ debug' = FALSE
    /\ pr_num' = NonePr
    /\ branch_name' = <<>>
    /\ merge_commit_sha' = NoneSha
    /\ labels' = {}
    /\ workd' = "none"
    /\ temp_dir' = "absent"
    /\ cwd_dir' = "exists"
    /\ exc' = NoExc
    /\ escaped' = NoExc
    /\ ret' = NoReturn
    /\ exit_code' = NoExit
    /\ gitLog' = <<>>
    /\ apiLog' = <<>>
    /\ pr_people' = NoPeople
    /\ UNCHANGED <<caller, bot, target_branch, is_continue, abort_before_push,
                   https, debug_in, pr_merged, pr_labels, commit_msg, output>>

PairNext == Next \/ Rerun

SpecPair == PairInit /\ [][PairNext]_vars

(***************************************************************************)
(* Properties.                                                             *)
(***************************************************************************)
\* App._run was entered
WorkflowRan == pr_num # NonePr \/ exc # NoExc

GitVerbs == { gitLog[i].verb : i \in DOMAIN gitLog }

ApiCalls(call) == { i \in DOMAIN apiLog : apiLog[i].call = call }

Comments == ApiCalls("create_issue_comment")

NoMutation == gitLog = <<>> /\ apiLog = <<>>

PrLacksMarker == ToBeBackported \notin pr_labels

\* C1, as claimed: every run on a pull request without the
\* 'to-be-backported' label ends with NoActionRequiredError and exit code
\* 0, having run no git command and made no mutating API call.
C1_NoMarkerAlwaysNoAction ==
    (pc = "done" /\ WorkflowRan /\ PrLacksMarker)
        => /\ exc.type = "NoActionRequiredError"
           /\ caller = "main" => exit_code = 0
           /\ NoMutation

\* the checks that come before the label check passed: the pull request
\* is merged, the commit messages parsed and no API call failed
ReachedLabelCheck ==
    /\ WorkflowRan
    /\ pr_merged
    /\ exc.type \notin {"ApiError", "ValueError"}
    /\ exc.what # "Invalid log message"

\* C1, amended: every run on a pull request without the 'to-be-backported'
\* label that reaches the label check (the pull request is found and
\* merged, the commit messages parse) ends with NoActionRequiredError, with
\* return value and exit code 0 in CLI and in bot mode, having run no git
\* command and made no mutating API call.
C1_NoMarkerNoActionAtLabelCheck ==
    (pc = "done" /\ PrLacksMarker /\ ReachedLabelCheck)
        => /\ exc.type = "NoActionRequiredError"
           /\ ret = 0
           /\ escaped = NoExc
           /\ caller = "main" => exit_code = 0
           /\ NoMutation

C1_Witness ==
    /\ pc = "done"
    /\ PrLacksMarker
    /\ ReachedLabelCheck
    /\ caller = "main"
    /\ bot
    /\ arg_sha # NoneSha
    /\ exit_code = 0

\* the working tree of the run is there
TreeExists == IF is_continue THEN cwd_dir = "exists" ELSE temp_dir = "exists"

IsAborted == exc.type = "GracefulError" /\ exc.what = "Aborted"

\* C2, as claimed: every run with abort_before_push runs no git push,
\* makes no create_pull call, leaves the working tree in place and ends as
\* the deliberate pause raised after the cherry-pick step.
C2_AbortAlwaysPauses ==
    (pc = "done" /\ WorkflowRan /\ abort_before_push)
        => /\ "push" \notin GitVerbs
           /\ ApiCalls("create_pull") = {}
           /\ TreeExists
           /\ IsAborted

\* every step before `if abort_before_push` succeeded
ReachedPausePoint ==
    /\ workd # "none"
    /\ \/ is_continue
       \/ \E i \in DOMAIN gitLog :
             gitLog[i].verb = "cherry-pick" /\ gitLog[i].rc = 0

\* C2, amended: in every run with abort_before_push no git push is run, no
\* create_pull call is made and no directory is deleted; every such run
\* whose earlier steps all succeed ends as the deliberate pause
\* (GracefulError 'Aborted') with its working tree in place, and the pause
\* is raised only there: after a successful cherry-pick in a fresh run,
\* before any git command in a continued one.
C2_AbortNeverPushes ==
    abort_before_push
        => /\ "push" \notin GitVerbs
           /\ ApiCalls("create_pull") = {}
           /\ temp_dir # "deleted"
           /\ cwd_dir = "exists"
           /\ (pc = "done" /\ ReachedPausePoint) => (IsAborted /\ TreeExists)
           /\ IsAborted => ReachedPausePoint

C2_Witness ==
    /\ pc = "done"
    /\ abort_before_push
    /\ is_continue
    /\ IsAborted
    /\ gitLog = <<>>

\* C3: a run with is_continue runs no clone, checkout -b, fetch or
\* cherry-pick; its first git command, if any, is the push, run in the
\* caller's current directory, which is its working tree.
C3_ContinueStartsAtPush ==
    is_continue
        => /\ GitVerbs \subseteq {"push"}
           /\ gitLog # <<>> => (gitLog[1].verb = "push" /\ gitLog[1].cd = "cwd")
           /\ workd \in {"none", "cwd"}
           /\ temp_dir = "absent"

C3_Witness ==
    /\ pc = "done"
    /\ is_continue
    /\ Len(gitLog) = 1
    /\ gitLog[1].verb = "push"
    /\ gitLog[1].rc = 0
    /\ exc = NoExc

\* C4: in CLI mode through main the exit code is 0 when the run succeeds or
\* ends with NoActionRequiredError, and 1 for every other failure of the
\* workflow.
C4_CliExitCodes ==
    (pc = "done" /\ caller = "main" /\ ~bot /\ WorkflowRan)
        => exit_code =
               IF exc.type \in {"none", "NoActionRequiredError"} THEN 0 ELSE 1

C4_Witness ==
    /\ pc = "done"
    /\ caller = "main"
    /\ ~bot
    /\ exc.type = "GracefulError"
    /\ exc.what = "Not cleanly cherry-picked"
    /\ exit_code = 1

\* C5, as claimed: in bot mode every run of the workflow returns 0, no
\* exception escapes, and a failure is reported by a comment.
C5_BotAlwaysReturnsZero ==
    (pc = "done" /\ bot /\ WorkflowRan)
        => /\ ret = 0
           /\ escaped = NoExc
           /\ caller = "main" => exit_code = 0
           /\ RunBotCatches(exc) => Comments # {}

\* C6: after a fresh run that created its temporary directory, the
\* directory is deleted when the run succeeded with self.debug off and no
\* abort_before_push, and is still there when self.debug is on, when the
\* run paused before the push and when the cherry-pick failed.
C6_TreeDisposal ==
    (pc = "done" /\ ~is_continue /\ temp_dir # "absent")
        => /\ (exc = NoExc /\ ~debug /\ ~abort_before_push)
                  => temp_dir = "deleted"
           /\ (debug \/ IsAborted \/ exc.what = "Not cleanly cherry-picked")
                  => temp_dir = "exists"

C6_Witness ==
    /\ pc = "done"
    /\ ~is_continue
    /\ ~debug
    /\ ~abort_before_push
    /\ exc.what = "Not cleanly cherry-picked"
    /\ temp_dir = "exists"

\* the mention C7 describes: who merged the pull request unless that is a
\* '[bot]' login, else the assignee if there is one, else the fallback
ClaimedMention ==
    IF pr_people.merged_by # <<>> /\ ~endswith(pr_people.merged_by, BotSuffix)
    THEN pr_people.merged_by
    ELSE IF pr_people.assignee # NoAssignee THEN pr_people.assignee
    ELSE CodeOwners

\* C7, as claimed: in bot mode a run that fails with anything but
\* NoActionRequiredError posts exactly one comment, with the mention chosen
\* as above; a run that succeeds or needs no action posts none.
C7_BotCommentsOnce ==
    (pc = "done" /\ bot /\ WorkflowRan)
        => IF RunBotCatches(exc)
           THEN /\ Cardinality(Comments) = 1
                /\ \A i \in Comments : apiLog[i].mention = ClaimedMention
           ELSE Comments = {}

\* C8: the labels set on the new pull request are computed from the
\* original labels alone: 'backport' plus every original label except
\* 'to-be-backported', 'reviewer-team' and those starting with 'st:'.
C8_DerivedLabels ==
    \A i \in ApiCalls("set_labels") :
        LET applied == apiLog[i].labels
        IN  /\ ToBeBackported \in pr_labels
            /\ ToBeBackported \notin applied
            /\ ReviewerTeam \notin applied
            /\ \A l \in applied : ~startswith(l, StPrefix)
            /\ Backport \in applied
            /\ applied \subseteq pr_labels \cup {Backport}
            /\ \A l \in pr_labels :
                  (l \notin {ToBeBackported, ReviewerTeam} /\ ~startswith(l, StPrefix))
                      => l \in applied

C8_Witness ==
    /\ pr_labels = Labels
    /\ \E i \in ApiCalls("set_labels") : apiLog[i].labels = {Backport, St, Feature}

\* C9, as claimed: for a message of any number of lines, parse_log_message
\* returns (N, branch, third line) when the first line matches the merge
\* pattern, and raises GracefulError 'Invalid log message' naming the first
\* line when it does not.
C9_ParsesAnyMessage ==
    pc = "parsed"
        => LET m == MatchPattern(input.lines[1])
           IN  /\ input.canonical
                      => /\ m.matched
                         /\ m.pr_num = input.digits
                         /\ m.branch_name = input.branch
               /\ IF m.matched
                  THEN /\ output.kind = "ok"
                       /\ output.pr_num = int(m.pr_num)
                       /\ output.branch_name = m.branch_name
                       /\ Len(input.lines) >= 3
                       /\ output.title = input.lines[3]
                  ELSE /\ output.kind = "GracefulError"
                       /\ output.line = input.lines[1]

\* what does hold: the same for the messages of three lines or more
C9_ParsesThreeLines ==
    (pc = "parsed" /\ Len(input.lines) >= 3) => C9_ParsesAnyMessage

\* C10: for one target branch, two different pull request numbers never
\* get the same derived branch name, whatever the source branch names.
C10_BranchNamesDistinct ==
    (pc = "named" /\ input.pr_num[1] # input.pr_num[2])
        => output[1] # output[2]

C10_Witness ==
    /\ pc = "named"
    /\ input.pr_num = <<1, 12>>
    /\ input.target_branch = V10
    /\ input.branch_name = << <<"2">>, <<"f", "i", "x">> >>
    /\ output[1] = <<"b", "p", "-", "1", "-", "v", "1", "0", "-", "2">>

\* C11: in a run started through main with --debug, the temporary working
\* tree of a fresh run still exists after the run, on every outcome and on
\* full success too.
C11_DebugFlagKeepsTree ==
    (pc = "done" /\ caller = "main" /\ debug_in /\ ~is_continue
        /\ temp_dir # "absent")
        => temp_dir = "exists"

\* C12, as claimed: the temporary working tree of a fresh run is deleted
\* at the end of the run on every outcome, except when debugging is on or
\* the run stopped deliberately before the push; only then is it kept.
C12_DeletedUnlessDebugOrAbort ==
    (pc = "done" /\ ~is_continue /\ temp_dir # "absent")
        => (temp_dir = "exists" <=> (debug \/ IsAborted))

\* C12, amended: the temporary working tree of a fresh run is deleted at
\* the end of the run exactly when the run succeeded with self.debug off;
\* it is kept when self.debug is on, when abort_before_push is set and on
\* every failure inside the with statement (a failed clone, checkout,
\* fetch or push, a cherry-pick conflict, a failed API call).
C12_DeletedOnlyOnSuccess ==
    (pc = "done" /\ ~is_continue /\ temp_dir # "absent")
        => /\ temp_dir = "deleted" <=> (exc = NoExc /\ ~debug)
           /\ (debug \/ abort_before_push \/ exc # NoExc) => temp_dir = "exists"

C12_Witness ==
    /\ pc = "done"
    /\ ~is_continue
    /\ ~debug
    /\ ~abort_before_push
    /\ exc.type = "GitCommandError"
    /\ Len(gitLog) = 5
    /\ gitLog[5].verb = "push"
    /\ temp_dir = "exists"

\* _run returned: the with statement was left without an exception and
\* "Done." and the URL of the new pull request were printed
Succeeded == pc \in {"returned", "done"} /\ workd # "none" /\ exc = NoExc

\* the number of the original pull request: --pr, or the number the
\* message of the --sha commit names
OriginalPr ==
    IF arg_pr # NonePr THEN arg_pr
    ELSE parse_log_message(WfMessages[commit_msg[arg_sha]]).pr_num

\* the source branch the message of the merge commit names
SourceBranch == parse_log_message(WfMessages[commit_msg[ShaM]]).branch_name

\* C13: on every successful run exactly one pull request is created, with
\* base the target branch, head '<user>:bp-<pr>-<target>-<source branch>',
\* title '[backport] ' and the title of the original pull request, body
\* 'Backport of #<pr> by @<author>'; its labels are then set to 'backport'
\* and the derived labels; the URL is printed only after both calls.
C13_BackportPullRequest ==
    Succeeded
        => /\ Len(apiLog) = 2
           /\ apiLog[1].call = "create_pull"
           /\ apiLog[1].base = target_branch
           /\ apiLog[1].head =
                  UserName \o <<":", "b", "p", "-">> \o str(OriginalPr) \o <<"-">>
                      \o target_branch \o <<"-">> \o SourceBranch
           /\ apiLog[1].title =
                  <<"[", "b", "a", "c", "k", "p", "o", "r", "t", "]", " ">> \o PrTitle
           /\ apiLog[1].body =
                  <<"B", "a", "c", "k", "p", "o", "r", "t", " ", "o", "f", " ", "#">>
                      \o str(OriginalPr) \o <<" ", "b", "y", " ", "@">> \o PrAuthor
           /\ apiLog[2].call = "set_labels"
           /\ apiLog[2].labels =
                  {Backport} \cup
                      {l \in pr_labels :
                          /\ l \notin {ToBeBackported, ReviewerTeam}
                          /\ ~startswith(l, StPrefix)}
           /\ gitLog[Len(gitLog)].verb = "push"
           /\ gitLog[Len(gitLog)].rc = 0

C13_Witness ==
    /\ pc = "done"
    /\ Succeeded
    /\ arg_sha = ShaS
    /\ commit_msg[ShaM] = 1
    /\ Feature \in pr_labels
    /\ apiLog[1].head =
           UserName \o <<":", "b", "p", "-", "1", "2", "-", "v", "1", "0", "-",
                         "f", "i", "x">>
    /\ apiLog[1].body =
           <<"B", "a", "c", "k", "p", "o", "r", "t", " ", "o", "f", " ", "#",
             "1", "2", " ", "b", "y", " ", "@", "a", "l", "i", "c", "e">>
    /\ apiLog[2].labels = {Backport, Feature}

\* exactly one of --pr and --sha was given
ExactlyOneGiven == (arg_pr = NonePr) # (arg_sha = NoneSha)

\* C14: when neither or both of --pr and --sha are given, main ends with
\* the usage error before App is built and before any git command or API
\* call; so every run of _run started through main has exactly one of
\* pr_num and sha, and the assertion on them at the top of _run never
\* fails.
C14_ExactlyOneOfPrAndSha ==
    caller = "main"
        => /\ ~ExactlyOneGiven
                  => /\ pc \in {"main", "done"}
                     /\ pc = "done" => exit_code = UsageExit
                     /\ NoMutation
                     /\ ~WorkflowRan
                     /\ escaped = NoExc
                     /\ ret = NoReturn
           /\ pc \notin {"main", "done"} => ExactlyOneGiven
           /\ exc.type # "AssertionError"

C14_Witness ==
    /\ caller = "main"
    /\ arg_pr # NonePr
    /\ arg_sha # NoneSha
    /\ pc = "done"
    /\ exit_code = UsageExit

\* the create_pull and set_labels calls made, in order
ApiSteps == SelectSeq(apiLog, LAMBDA c : c.call \in {"create_pull", "set_labels"})

\* the git command that may follow the commands run so far
FollowingVerb ==
    IF gitLog = <<>> THEN IF is_continue THEN "push" ELSE "clone"
    ELSE CASE gitLog[Len(gitLog)].verb = "clone" -> "checkout -b"
           [] gitLog[Len(gitLog)].verb = "checkout -b" -> "fetch"
           [] gitLog[Len(gitLog)].verb = "fetch" -> "cherry-pick"
           [] gitLog[Len(gitLog)].verb = "cherry-pick" -> "push"
           [] OTHER -> "none"

AllGitSucceeded == \A i \in DOMAIN gitLog : gitLog[i].rc = 0

Pushed ==
    /\ gitLog # <<>>
    /\ gitLog[Len(gitLog)].verb = "push"
    /\ AllGitSucceeded

\* one step of the program keeps the order of the mutating steps
StepInOrder ==
    /\ gitLog' # gitLog
          => /\ exc = NoExc
             /\ AllGitSucceeded
             /\ ApiSteps = <<>>
             /\ Len(gitLog') = Len(gitLog) + 1
             /\ SubSeq(gitLog', 1, Len(gitLog)) = gitLog
             /\ gitLog'[Len(gitLog')].verb = FollowingVerb
    /\ ApiSteps' # ApiSteps
          => /\ exc = NoExc
             /\ Pushed
             /\ gitLog' = gitLog
             /\ \/ /\ ApiSteps = <<>>
                   /\ Len(ApiSteps') = 1
                   /\ ApiSteps'[1].call = "create_pull"
                \/ /\ Len(ApiSteps) = 1
                   /\ Len(ApiSteps') = 2
                   /\ ApiSteps'[1] = ApiSteps[1]
                   /\ ApiSteps'[2].call = "set_labels"
    /\ exc # NoExc
          => /\ exc' = exc
             /\ gitLog' = gitLog
             /\ ApiSteps' = ApiSteps

\* C15: the mutating steps of a run occur only in the order clone,
\* checkout -b, fetch, cherry-pick, push, create_pull, set_labels (push,
\* create_pull, set_labels in a continued run); a step is taken only if
\* every earlier step of the run succeeded, and once a step has failed no
\* further git command, create_pull or set_labels is executed.
C15_StepsInOrder == [][StepInOrder]_vars

C15_Witness ==
    /\ pc = "done"
    /\ bot
    /\ Len(gitLog) = 3
    /\ gitLog[1].verb = "clone" /\ gitLog[1].rc = 0
    /\ gitLog[2].verb = "checkout -b" /\ gitLog[2].rc = 0
    /\ gitLog[3].verb = "fetch" /\ gitLog[3].rc = 128
    /\ exc.type = "GitCommandError"
    /\ ApiSteps = <<>>
    /\ Comments # {}

\* the git commands that ended with a non-zero status
FailedGit == { i \in DOMAIN gitLog : gitLog[i].rc # 0 }

\* C16, as claimed: every git command that returns a non-zero status ends
\* the run as a failure, and the error _run raises carries the arguments
\* and the exit status of the command that failed.
C16_GitFailureCarriesCommand ==
    \A i \in FailedGit :
        /\ exc.type = "GitCommandError"
        /\ exc.cmd = <<gitLog[i]>>

\* C16, amended: every git command that returns a non-zero status is the
\* last step of the run and ends it as a failure; for clone, checkout,
\* fetch and push the error _run raises is the GitCommandError carrying the
\* arguments and the exit status of that command, and it escapes run_cli;
\* for cherry-pick _run replaces it by GracefulError('Not cleanly
\* cherry-picked'), which carries neither, and run_cli returns 1.
C16_GitFailureSurfaces ==
    \A i \in FailedGit :
        /\ i = Len(gitLog)
        /\ ApiSteps = <<>>
        /\ IF gitLog[i].verb = "cherry-pick"
           THEN /\ exc = Exc("GracefulError", "Not cleanly cherry-picked")
                /\ (pc = "done" /\ ~bot) => (ret = 1 /\ escaped = NoExc)
           ELSE /\ exc.type = "GitCommandError"
                /\ exc.cmd = <<gitLog[i]>>
                /\ (pc = "done" /\ ~bot) => (ret = NoReturn /\ escaped = exc)
        /\ (pc = "done" /\ ~bot /\ caller = "main") => exit_code = 1

C16_Witness ==
    /\ pc = "done"
    /\ ~bot
    /\ caller = "main"
    /\ Len(gitLog) = 1
    /\ gitLog[1].verb = "clone"
    /\ gitLog[1].rc = 1
    /\ escaped.type = "GitCommandError"
    /\ escaped.cmd[1].rc = 1
    /\ escaped.cmd[1].verb = "clone"
    /\ escaped.cmd[1].branch = V10
    /\ exit_code = 1

\* how many times a git command was run
TimesRun(verb) == Cardinality({ i \in DOMAIN gitLog : gitLog[i].verb = verb })

\* C17: in one run each git command (clone, checkout -b, fetch,
\* cherry-pick, push) and the create_pull call is issued at most once, in
\* CLI mode and in bot mode; a command that failed is the last one run.
C17_NoRetries ==
    /\ \A verb \in {"clone", "checkout -b", "fetch", "cherry-pick", "push"} :
          TimesRun(verb) <= 1
    /\ Cardinality(ApiCalls("create_pull")) <= 1
    /\ \A i \in FailedGit : i = Len(gitLog)

C17_Witness ==
    /\ pc = "done"
    /\ bot
    /\ ret = 0
    /\ Comments # {}
    /\ TimesRun("push") = 1
    /\ gitLog[Len(gitLog)].verb = "push"
    /\ gitLog[Len(gitLog)].rc = 1
    /\ ApiCalls("create_pull") = {}

\* C18: in continue mode no directory is created and none is deleted: the
\* caller's current directory is the working tree and still exists after
\* the run on every outcome, whatever debug and abort_before_push are.
C18_ContinueKeepsDirectories ==
    is_continue
        => /\ temp_dir = "absent"
           /\ cwd_dir = "exists"
           /\ workd \in {"none", "cwd"}
           /\ \A i \in DOMAIN gitLog : gitLog[i].cd = "cwd"

C18_Witness ==
    /\ pc = "done"
    /\ is_continue
    /\ Succeeded
    /\ ~debug
    /\ ~abort_before_push
    /\ workd = "cwd"
    /\ cwd_dir = "exists"
    /\ temp_dir = "absent"

\* how parse_log_message ends on each of the commit messages
MessageKinds ==
    [i \in 1..Len(WfMessages) |-> parse_log_message(WfMessages[i]).kind]

\* a commit message the run has read does not parse
UnparsedMessage ==
    \E c \in Shas : commit_msg[c] # 0 /\ MessageKinds[commit_msg[c]] # "ok"

\* C19: if the original pull request is not merged, or the message of the
\* merge commit or of the --sha commit does not parse, or the
\* 'to-be-backported' label is absent, the run ends with an exception of
\* _run before a temporary directory is created and before any git
\* command, create_pull or set_labels call.
C19_ChecksBeforeSideEffects ==
    (~pr_merged \/ UnparsedMessage \/ PrLacksMarker)
        => /\ temp_dir = "absent"
           /\ workd = "none"
           /\ gitLog = <<>>
           /\ ApiSteps = <<>>
           /\ pc # "returned"
           /\ (pc = "done" /\ WorkflowRan) => exc # NoExc

C19_Witness ==
    /\ pc = "done"
    /\ arg_sha = ShaS
    /\ pr_num = 1
    /\ pr_merged
    /\ ~PrLacksMarker
    /\ commit_msg[ShaM] = 3
    /\ exc = Exc("GracefulError", "Invalid log message")
    /\ temp_dir = "absent"
    /\ gitLog = <<>>

\* the create_pull and set_labels calls of a log
StepsOf(log) == SelectSeq(log, LAMBDA c : c.call \in {"create_pull", "set_labels"})

\* in the run no git command and no API call failed
NothingFailed(e, esc) ==
    /\ esc.what # "App.__init__"
    /\ e.type \notin {"ApiError", "GitCommandError"}
    /\ e.what # "Not cleanly cherry-picked"

\* the message of the --sha commit was read and its first line names the
\* pull request n
ShaNames(n) ==
    /\ arg_sha # NoneSha
    /\ commit_msg[arg_sha] # 0
    /\ LET m == MatchPattern(split(WfMessages[commit_msg[arg_sha]])[1])
       IN  m.matched /\ int(m.pr_num) = n

\* the second run has ended, on a merged pull request that the --sha
\* commit names, and in neither run a git command or an API call failed
PairEnded ==
    /\ pc = "done"
    /\ input # <<>>
    /\ pr_merged
    /\ ShaNames(input.pr)
    /\ NothingFailed(input.exc, input.escaped)
    /\ NothingFailed(exc, escaped)

\* C20, as claimed: for a merged pull request N, the run with --sha S,
\* where the first line of the message of S names N, runs the same git
\* commands (with the merge commit, never S, and the same branch name) and
\* makes the same create_pull and set_labels calls as the run with --pr N
\* under the same flags.
C20_ShaRunAsPrRun ==
    PairEnded
        => /\ gitLog = input.gitLog
           /\ StepsOf(apiLog) = StepsOf(input.apiLog)

\* what does hold: the same when the message of S has three lines or more
C20_ShaRunAsPrRunThreeLines ==
    (PairEnded /\ Len(split(WfMessages[commit_msg[arg_sha]])) >= 3)
        => /\ gitLog = input.gitLog
           /\ StepsOf(apiLog) = StepsOf(input.apiLog)

=============================================================================
